---- MODULE Spec2Model ----
(***************************************************************************)
(* HealthCDK: the HealthServicePipeline delivery pipeline declared in      *)
(* PipelineStack (src/lib/stacks/S3Stack.ts, lines 36-312).                *)
(*                                                                         *)
(* The model follows one pipeline execution after another through the four *)
(* stages Source, Package, DeployToDev, IntegrationTests.  The buildspec    *)
(* command lists are executed as CodeBuild executes them: in order, the    *)
(* first command that exits non-zero fails the stage.  The remote command  *)
(* sent through SSM lives on the target machine independently of the stage *)
(* that dispatched it.                                                     *)
(***************************************************************************)
EXTENDS Integers, Sequences, FiniteSets, TLC

\* ------------------------------------------------------------------------
\* Bounds of the model
\* ------------------------------------------------------------------------
\* number of pipeline executions that are followed
MaxRuns == 2
\* number of source actions that may fail in one execution
MaxSrcFailures == 1
\* number of containers that may be missing from the process list after
\* docker-compose up
MaxMissing == 1
\* machines tagged HealthEnv=dev when other machines carry the tag as well
MaxFleet == 2

\* ------------------------------------------------------------------------
\* Program constants
\* ------------------------------------------------------------------------
\* for i in $(seq 1 20)
MaxAttempts == 20
\* sleep 30
SleepSeconds == 30
\* --timeout-seconds 1800
TimeoutSeconds == 1800

\* StageOrder with the DeployToDev stage added before the Package stage
StageOrder_Swapped == <<"Source", "DeployToDev", "Package", "IntegrationTests">>

\* the four stages, in the order of the pipeline.addStage calls
StageOrder == <<"Source", "Package", "DeployToDev", "IntegrationTests">>

Stages == {StageOrder[i] : i \in 1..Len(StageOrder)}

\* the two stages whose buildspec sends a remote command and polls it
RemoteStages == {"DeployToDev", "IntegrationTests"}

\* the eight GitHubSourceAction repositories of the Source stage
Repos == {"HealthWorkspace", "HealthBEService", "HealthDAO", "HealthSAO",
          "HealthFEService", "HealthInferenceService", "HealthCDK",
          "HealthIntegrationTests"}

\* the container names the remote commands grep for in the docker ps output
Procs == {"healthai", "healthfe", "healthpy", "cassandra"}

\* the two objects of the deploy bucket
Keys == {"frontend.conf", "docker_workspace.tar.gz"}

\* PackagerCommands with the archive packed and uploaded before the builds
PackagerCommands_UploadFirst == <<
    [name |-> "mkdir workspace",               put |-> ""],
    [name |-> "clone HealthWorkspace",         put |-> ""],
    [name |-> "clone HealthCDK",               put |-> ""],
    [name |-> "s3 cp frontend.conf",           put |-> "frontend.conf"],
    [name |-> "clone HealthDAO",               put |-> ""],
    [name |-> "clone HealthSAO",               put |-> ""],
    [name |-> "clone HealthBEService",         put |-> ""],
    [name |-> "clone HealthFEService",         put |-> ""],
    [name |-> "clone HealthInferenceService",  put |-> ""],
    [name |-> "clone HealthIntegrationTests",  put |-> ""],
    [name |-> "tar docker_workspace.tar.gz",   put |-> ""],
    [name |-> "s3 cp docker_workspace.tar.gz", put |-> "docker_workspace.tar.gz"],
    [name |-> "build HealthDAO",               put |-> ""],
    [name |-> "build HealthSAO",               put |-> ""],
    [name |-> "build HealthBEService",         put |-> ""]
  >>

\* ------------------------------------------------------------------------
\* The build commands of the WorkspacePackager project.  CodeBuild runs
\* them in order; a command that exits non-zero fails the build.  Only the
\* commands that can fail the build or that write to the bucket are listed
\* (echo, pwd, ls and the commands guarded by "|| true" cannot fail it).
\* put is the bucket key the command uploads, "" when it uploads nothing.
\* ------------------------------------------------------------------------
PackagerCommands == <<
    [name |-> "mkdir workspace",               put |-> ""],
    [name |-> "clone HealthWorkspace",         put |-> ""],
    [name |-> "clone HealthCDK",               put |-> ""],
    [name |-> "s3 cp frontend.conf",           put |-> "frontend.conf"],
    [name |-> "clone HealthDAO",               put |-> ""],
    [name |-> "clone HealthSAO",               put |-> ""],
    [name |-> "clone HealthBEService",         put |-> ""],
    [name |-> "clone HealthFEService",         put |-> ""],
    [name |-> "clone HealthInferenceService",  put |-> ""],
    [name |-> "clone HealthIntegrationTests",  put |-> ""],
    [name |-> "build HealthDAO",               put |-> ""],
    [name |-> "build HealthSAO",               put |-> ""],
    [name |-> "build HealthBEService",         put |-> ""],
    [name |-> "tar docker_workspace.tar.gz",   put |-> ""],
    [name |-> "s3 cp docker_workspace.tar.gz", put |-> "docker_workspace.tar.gz"]
  >>

\* the three gradle build steps of the Package stage
BuildSteps == {"build HealthDAO", "build HealthSAO", "build HealthBEService"}

\* ------------------------------------------------------------------------
\* The commands.json files the two remote stages write with cat <<EOF.
\* A payload is the JSON array "commands"; for each element the model keeps
\* the operation it performs on the target machine and whether the text of
\* the element is a well-formed JSON string (every inner double quote
\* escaped); trailingComma tells whether a comma follows the last element.
\* ------------------------------------------------------------------------
DeployPayload ==
  [ elems |-> <<
      [op |-> "setup",   arg |-> "nginx, certbot, crontab, docker-compose", wellQuoted |-> TRUE],
      [op |-> "fetch",   arg |-> "docker_workspace.tar.gz",  wellQuoted |-> TRUE],
      [op |-> "extract", arg |-> "docker_workspace.tar.gz",  wellQuoted |-> TRUE],
      [op |-> "down",    arg |-> "docker-compose down",      wellQuoted |-> TRUE],
      [op |-> "prune",   arg |-> "docker system prune -f",   wellQuoted |-> TRUE],
      [op |-> "up",      arg |-> "docker-compose up -d --build", wellQuoted |-> TRUE],
      [op |-> "sleep",   arg |-> "180",                      wellQuoted |-> TRUE],
      [op |-> "check",   arg |-> "healthai",                 wellQuoted |-> TRUE],
      [op |-> "check",   arg |-> "healthfe",                 wellQuoted |-> TRUE],
      [op |-> "check",   arg |-> "healthpy",                 wellQuoted |-> TRUE],
      [op |-> "check",   arg |-> "cassandra",                wellQuoted |-> TRUE] >>,
    trailingComma |-> FALSE ]

TestPayload ==
  [ elems |-> <<
      [op |-> "check",   arg |-> "healthai",                 wellQuoted |-> TRUE],
      [op |-> "check",   arg |-> "healthfe",                 wellQuoted |-> TRUE],
      [op |-> "check",   arg |-> "healthpy",                 wellQuoted |-> TRUE],
      [op |-> "check",   arg |-> "cassandra",                wellQuoted |-> TRUE],
      [op |-> "cd",      arg |-> "/home/ec2-user/workspace", wellQuoted |-> TRUE],
      \* --tests "org.dev.HealthDevBEIntegrationTestSuite")  : the inner
      \* double quotes are not escaped, and a comma follows the element
      [op |-> "suite",   arg |-> "org.dev.HealthDevBEIntegrationTestSuite", wellQuoted |-> FALSE] >>,
    trailingComma |-> TRUE ]

PayloadOf(s) == IF s = "DeployToDev" THEN DeployPayload ELSE TestPayload

\* aws ssm send-command --parameters file://commands.json parses the file as
\* JSON; a file that is not JSON is a parameter error and nothing is sent
ValidJson(p) ==
  /\ ~p.trailingComma
  /\ \A i \in 1..Len(p.elems) : p.elems[i].wellQuoted


\* ------------------------------------------------------------------------
\* Execution of a remote script by AWS-RunShellScript.  The elements of the
\* commands array are run in order by one shell without "set -e": the exit
\* status of a command is ignored unless the command ends with "|| exit 1",
\* and the script exits with the status of its last command.
\*   m   : the target machine  [running, archive, workspace, deployed]
\*   st  : the deploy bucket
\*   env : what the environment does during this run
\*         alive   - the containers docker ps lists once they were started
\*         dlOk    - the download from the bucket goes through
\*         suiteOk - the integration-test suite passes
\* The result is [m, rc, done, ran]: the machine, the last exit status,
\* whether the script has exited, and the operations that were run.
\* ------------------------------------------------------------------------
Step(e, acc, st, env) ==
  LET m   == acc.m
      ran == Append(acc.ran, e.op)
  IN  CASE e.op = "fetch" ->
             IF env.dlOk /\ st[e.arg] # 0
               THEN [acc EXCEPT !.m = [m EXCEPT !.archive = st[e.arg]], !.rc = 0, !.ran = ran]
               ELSE [acc EXCEPT !.rc = 1, !.ran = ran]
        [] e.op = "extract" ->
             IF m.archive # 0
               THEN [acc EXCEPT !.m = [m EXCEPT !.workspace = m.archive], !.rc = 0, !.ran = ran]
               ELSE [acc EXCEPT !.rc = 1, !.ran = ran]
        [] e.op = "down" ->
             IF m.workspace # 0
               THEN [acc EXCEPT !.m = [m EXCEPT !.running = {}, !.deployed = 0], !.rc = 0, !.ran = ran]
               ELSE [acc EXCEPT !.rc = 1, !.ran = ran]
        [] e.op = "up" ->
             IF m.workspace # 0
               THEN [acc EXCEPT !.m = [m EXCEPT !.running = env.alive, !.deployed = m.workspace],
                                !.rc = 0, !.ran = ran]
               ELSE [acc EXCEPT !.rc = 1, !.ran = ran]
        [] e.op = "check" ->
             \* docker ps | grep -q <name> || exit 1
             IF e.arg \in m.running
               THEN [acc EXCEPT !.rc = 0, !.ran = ran]
               ELSE [acc EXCEPT !.rc = 1, !.done = TRUE, !.ran = ran]
        [] e.op = "suite" ->
             [acc EXCEPT !.rc = (IF env.suiteOk THEN 0 ELSE 1), !.ran = ran]
        [] OTHER ->
             \* setup, prune, sleep, cd: no effect that is modelled
             [acc EXCEPT !.rc = 0, !.ran = ran]

RECURSIVE Exec(_, _, _, _, _)
Exec(elems, i, acc, st, env) ==
  IF i > Len(elems) \/ acc.done
    THEN acc
    ELSE Exec(elems, i + 1, Step(elems[i], acc, st, env), st, env)

\* RunScript with a failed script putting the machine back as it found it
RunScript_Rollback(p, m, st, env) ==
  LET r == Exec(p.elems, 1, [m |-> m, rc |-> 0, done |-> FALSE, ran |-> <<>>], st, env)
  IN  IF r.rc # 0 THEN [r EXCEPT !.m = m] ELSE r

RunScript(p, m, st, env) ==
  Exec(p.elems, 1, [m |-> m, rc |-> 0, done |-> FALSE, ran |-> <<>>], st, env)

HasOp(p, op) == \E i \in 1..Len(p.elems) : p.elems[i].op = op

\* the inputs of one run of the script of payload p: an input the script
\* never reads is fixed
EnvsOf(p) ==
  [alive   : IF HasOp(p, "up")
               THEN {A \in SUBSET Procs : Cardinality(Procs \ A) <= MaxMissing}
               ELSE {{}},
   dlOk    : IF HasOp(p, "fetch") THEN BOOLEAN ELSE {TRUE},
   suiteOk : IF HasOp(p, "suite") THEN BOOLEAN ELSE {TRUE}]

\* ------------------------------------------------------------------------
\* State
\* ------------------------------------------------------------------------
VARIABLES
  exec,         \* number of the current pipeline execution, 0 before the first
  stageStatus,  \* stage -> NotStarted | InProgress | Succeeded | Failed
  srcFailed,    \* the source actions of this execution that failed
  pkgPc,        \* number of packager commands that have completed
  pkgFailed,    \* index of the packager command that exited non-zero, or 0
  store,        \* deploy bucket: key -> execution that uploaded it, 0 = absent
  storeAtStart, \* the bucket as it was when this execution started
  cmds,         \* the remote commands sent so far, by COMMAND_ID, each
                \* [stage, run, timeout, phase, exit, others]: phase and exit
                \* are those of the invocation on machine, others holds
                \* [phase, exit] of the invocation on each peer
  cmdOf,        \* remote stage -> COMMAND_ID of this execution, 0 = none
  dispatchErr,  \* remote stage -> none | ParamError | ServiceError
  attempt,      \* remote stage -> number of poll calls made by the loop (i)
  STATUS,       \* remote stage -> the STATUS read by the last poll call, "" = none
  firstTerminal, \* remote stage -> [at, status]: the first attempt that read
                \* Success or Failed and what it read, at = 0 when none did
  slept,        \* remote stage -> seconds slept by the poll loop
  outcome,      \* remote stage -> [exit, msg] of the poll loop, exit -1 = none
  machine,      \* the target machine tagged HealthEnv=dev (devInstance), with
                \* log the operations the last script ran on it; its
                \* invocation is the first that list-command-invocations lists
  fleet,        \* number of machines that carry the tag HealthEnv=dev
  peers         \* the other tagged machines, numbered 2..fleet

pipeVars == <<stageStatus, srcFailed, pkgPc, pkgFailed, cmdOf, dispatchErr,
              attempt, STATUS, firstTerminal, slept, outcome>>

vars == <<exec, stageStatus, srcFailed, pkgPc, pkgFailed, store, storeAtStart,
          cmds, cmdOf, dispatchErr, attempt, STATUS, firstTerminal, slept, outcome, machine,
          fleet, peers>>

\* ------------------------------------------------------------------------
\* Pipeline orchestration
\* ------------------------------------------------------------------------
IndexOf(s) == CHOOSE i \in 1..Len(StageOrder) : StageOrder[i] = s

\* Advance with a failed stage handing over to the next stage all the same
Advance_Continue(st, s, ok) ==
  LET i == CHOOSE j \in 1..Len(StageOrder) : StageOrder[j] = s
  IN  [t \in Stages |->
         IF t = s THEN (IF ok THEN "Succeeded" ELSE "Failed")
         ELSE IF i < Len(StageOrder) /\ t = StageOrder[i + 1] THEN "InProgress"
         ELSE st[t]]

\* stage s has ended with result ok: a failed stage stops the execution, a
\* successful one hands over to the stage added after it
Advance(st, s, ok) ==
  LET i == IndexOf(s)
  IN  [t \in Stages |->
         IF t = s THEN (IF ok THEN "Succeeded" ELSE "Failed")
         ELSE IF ok /\ i < Len(StageOrder) /\ t = StageOrder[i + 1] THEN "InProgress"
         ELSE st[t]]

Idle == \A s \in Stages : stageStatus[s] # "InProgress"

NoOutcome == [exit |-> -1, msg |-> ""]

NoTerminal == [at |-> 0, status |-> ""]

FreshMachine == [running |-> {}, archive |-> 0, workspace |-> 0, deployed |-> 0, log |-> <<>>]

\* the state after deployment, with n machines carrying the tag
InitFleet(n) ==
  /\ exec = 0
  /\ stageStatus = [s \in Stages |-> "NotStarted"]
  /\ srcFailed = {}
  /\ pkgPc = 0
  /\ pkgFailed = 0
  /\ store = [k \in Keys |-> 0]
  /\ storeAtStart = [k \in Keys |-> 0]
  /\ cmds = <<>>
  /\ cmdOf = [s \in RemoteStages |-> 0]
  /\ dispatchErr = [s \in RemoteStages |-> "none"]
  /\ attempt = [s \in RemoteStages |-> 0]
  /\ STATUS = [s \in RemoteStages |-> ""]
  /\ firstTerminal = [s \in RemoteStages |-> NoTerminal]
  /\ slept = [s \in RemoteStages |-> 0]
  /\ outcome = [s \in RemoteStages |-> NoOutcome]
  /\ machine = FreshMachine
  /\ fleet = n
  /\ peers = [m \in 2..n |-> FreshMachine]

\* DevStack creates one instance and tags it
Init == InitFleet(1)

\* further machines of the account carry the tag
FleetInit == InitFleet(MaxFleet)

\* a webhook push or an operator starts an execution once the previous one
\* has ended
StartExecution ==
  /\ exec < MaxRuns
  /\ Idle
  /\ exec' = exec + 1
  /\ stageStatus' = [s \in Stages |-> IF s = StageOrder[1] THEN "InProgress" ELSE "NotStarted"]
  /\ srcFailed' = {}
  /\ pkgPc' = 0
  /\ pkgFailed' = 0
  /\ storeAtStart' = store
  /\ cmdOf' = [s \in RemoteStages |-> 0]
  /\ dispatchErr' = [s \in RemoteStages |-> "none"]
  /\ attempt' = [s \in RemoteStages |-> 0]
  /\ STATUS' = [s \in RemoteStages |-> ""]
  /\ firstTerminal' = [s \in RemoteStages |-> NoTerminal]
  /\ slept' = [s \in RemoteStages |-> 0]
  /\ outcome' = [s \in RemoteStages |-> NoOutcome]
  /\ UNCHANGED <<store, cmds, machine, fleet, peers>>

\* the eight GitHubSourceAction fetches of the Source stage; F is the set of
\* repositories whose fetch fails
SourceStage ==
  /\ stageStatus["Source"] = "InProgress"
  /\ \E F \in SUBSET Repos :
       /\ Cardinality(F) <= MaxSrcFailures
       /\ srcFailed' = F
       /\ stageStatus' = Advance(stageStatus, "Source", F = {})
  /\ UNCHANGED <<exec, pkgPc, pkgFailed, store, storeAtStart, cmds, cmdOf,
                 dispatchErr, attempt, STATUS, firstTerminal, slept, outcome, machine,
                 fleet, peers>>

\* the bucket after packager command c of this execution has succeeded
Upload(st, c, run) == IF c.put = "" THEN st ELSE [st EXCEPT ![c.put] = run]

\* one command of the packager build phase; ok is its exit status being zero
PackageStep ==
  /\ stageStatus["Package"] = "InProgress"
  /\ pkgPc < Len(PackagerCommands)
  /\ \E ok \in BOOLEAN :
       IF ok
         THEN /\ pkgPc' = pkgPc + 1
              /\ store' = Upload(store, PackagerCommands[pkgPc + 1], exec)
              /\ pkgFailed' = pkgFailed
              /\ stageStatus' = IF pkgPc + 1 = Len(PackagerCommands)
                                  THEN Advance(stageStatus, "Package", TRUE)
                                  ELSE stageStatus
         ELSE /\ pkgFailed' = pkgPc + 1
              /\ stageStatus' = Advance(stageStatus, "Package", FALSE)
              /\ UNCHANGED <<pkgPc, store>>
  /\ UNCHANGED <<exec, srcFailed, storeAtStart, cmds, cmdOf, dispatchErr,
                 attempt, STATUS, firstTerminal, slept, outcome, machine, fleet, peers>>


\* ------------------------------------------------------------------------
\* The remote command service (SSM) and the target machine
\* ------------------------------------------------------------------------
\* StatusOf with every finished command reported as Success
StatusOf_AnyDone(c) ==
  IF c.phase = "Pending" THEN "Pending"
  ELSE IF c.phase = "InProgress" THEN "InProgress"
  ELSE "Success"

\* CommandInvocations[0].Status of a command
StatusOf(c) ==
  IF c.phase = "Pending" THEN "Pending"
  ELSE IF c.phase = "InProgress" THEN "InProgress"
  ELSE IF c.exit = 0 THEN "Success"
  ELSE "Failed"

Running(c) == c.phase = "InProgress"

\* COMMAND_ID=$(aws ssm send-command ... --parameters file://commands.json
\*              --timeout-seconds 1800 ...)
\* apiOk: the service accepts the request.  A failing send-command fails the
\* build before the poll loop is reached.
Dispatch(s) ==
  /\ stageStatus[s] = "InProgress"
  /\ cmdOf[s] = 0
  /\ \E apiOk \in BOOLEAN :
       IF ~ValidJson(PayloadOf(s))
         THEN /\ dispatchErr' = [dispatchErr EXCEPT ![s] = "ParamError"]
              /\ stageStatus' = Advance(stageStatus, s, FALSE)
              /\ UNCHANGED <<cmds, cmdOf>>
         ELSE IF ~apiOk
         THEN /\ dispatchErr' = [dispatchErr EXCEPT ![s] = "ServiceError"]
              /\ stageStatus' = Advance(stageStatus, s, FALSE)
              /\ UNCHANGED <<cmds, cmdOf>>
         ELSE /\ cmds' = Append(cmds, [stage |-> s, run |-> exec, timeout |-> TimeoutSeconds,
                                       phase |-> "Pending", exit |-> -1,
                                       others |-> [m \in 2..fleet |->
                                                     [phase |-> "Pending", exit |-> -1]]])
              /\ cmdOf' = [cmdOf EXCEPT ![s] = Len(cmds) + 1]
              /\ UNCHANGED <<dispatchErr, stageStatus>>
  /\ UNCHANGED <<exec, srcFailed, pkgPc, pkgFailed, store, storeAtStart,
                 attempt, STATUS, firstTerminal, slept, outcome, machine, fleet, peers>>

\* the invocation of command c on machine m of the fleet
InvocationOf(c, m) == IF m = 1 THEN [phase |-> c.phase, exit |-> c.exit] ELSE c.others[m]

\* machine m of the fleet
MachineOf(m) == IF m = 1 THEN machine ELSE peers[m]

\* the agent on machine m picks the command up
CommandStart(id, m) ==
  /\ InvocationOf(cmds[id], m).phase = "Pending"
  /\ cmds' = IF m = 1
               THEN [cmds EXCEPT ![id].phase = "InProgress"]
               ELSE [cmds EXCEPT ![id].others[m].phase = "InProgress"]
  /\ UNCHANGED <<exec, stageStatus, srcFailed, pkgPc, pkgFailed, store,
                 storeAtStart, cmdOf, dispatchErr, attempt, STATUS, firstTerminal, slept, outcome,
                 machine, fleet, peers>>

\* the script of the command runs to its end on machine m
CommandRun(id, m) ==
  /\ InvocationOf(cmds[id], m).phase = "InProgress"
  /\ \E env \in EnvsOf(PayloadOf(cmds[id].stage)) :
       LET r == RunScript(PayloadOf(cmds[id].stage), MachineOf(m), store, env)
       IN  IF m = 1
             THEN /\ machine' = [r.m EXCEPT !.log = r.ran]
                  /\ cmds' = [cmds EXCEPT ![id].phase = "Done", ![id].exit = r.rc]
                  /\ UNCHANGED peers
             ELSE /\ peers' = [peers EXCEPT ![m] = [r.m EXCEPT !.log = r.ran]]
                  /\ cmds' = [cmds EXCEPT ![id].others[m] = [phase |-> "Done", exit |-> r.rc]]
                  /\ UNCHANGED machine
  /\ UNCHANGED <<exec, stageStatus, srcFailed, pkgPc, pkgFailed, store,
                 storeAtStart, cmdOf, dispatchErr, attempt, STATUS, firstTerminal, slept, outcome,
                 fleet>>

\* ------------------------------------------------------------------------
\* The poll loop of the two remote stages:
\*   for i in $(seq 1 20); do STATUS=$(aws ssm list-command-invocations ...);
\*     if [ "$STATUS" = "Success" ]; then echo "... completed"; exit 0; fi;
\*     if [ "$STATUS" = "Failed" ]; then echo "... failed"; exit 1; fi;
\*     sleep 30; done; echo "... timed out ..."; exit 1
\* ------------------------------------------------------------------------
CompletedMsg == "Deployment completed"
FailedMsg    == "Deployment failed"
\* TimedOutMsg with the text of the failure branch
TimedOutMsg_AsFailed == "Deployment failed"

TimedOutMsg  == "Deployment timed out waiting for SSM command to finish"

\* PollDecision without the test for Success
PollDecision_NoSuccess(status) ==
  IF status = "Failed" THEN "exit1" ELSE "sleep"

\* what one iteration does with the STATUS it read
PollDecision(status) ==
  IF status = "Success" THEN "exit0"
  ELSE IF status = "Failed" THEN "exit1"
  ELSE "sleep"

\* SleepOf with the sleep placed before the tests of STATUS
SleepOf_Always(d) == SleepSeconds

\* seconds slept in an iteration that took decision d
SleepOf(d) == IF d = "sleep" THEN SleepSeconds ELSE 0

\* LoopDone with the loop running one iteration more
LoopDone_OneMore(i) == i >= MaxAttempts + 1

\* the loop is over after iteration i
LoopDone(i) == i >= MaxAttempts

\* one iteration of the loop, and the two commands after it when it was the
\* last one
Poll(s) ==
  /\ stageStatus[s] = "InProgress"
  /\ cmdOf[s] # 0
  /\ LET read == StatusOf(cmds[cmdOf[s]])
         d    == PollDecision(read)
         i    == attempt[s] + 1
     IN  /\ attempt' = [attempt EXCEPT ![s] = i]
         /\ STATUS' = [STATUS EXCEPT ![s] = read]
         /\ firstTerminal' =
              IF firstTerminal[s].at = 0 /\ read \in {"Success", "Failed"}
                THEN [firstTerminal EXCEPT ![s] = [at |-> i, status |-> read]]
                ELSE firstTerminal
         /\ slept' = [slept EXCEPT ![s] = @ + SleepOf(d)]
         /\ CASE d = "exit0" ->
                   /\ outcome' = [outcome EXCEPT ![s] = [exit |-> 0, msg |-> CompletedMsg]]
                   /\ stageStatus' = Advance(stageStatus, s, TRUE)
              [] d = "exit1" ->
                   /\ outcome' = [outcome EXCEPT ![s] = [exit |-> 1, msg |-> FailedMsg]]
                   /\ stageStatus' = Advance(stageStatus, s, FALSE)
              [] OTHER ->
                   IF LoopDone(i)
                     THEN /\ outcome' = [outcome EXCEPT ![s] = [exit |-> 1, msg |-> TimedOutMsg]]
                          /\ stageStatus' = Advance(stageStatus, s, FALSE)
                     ELSE UNCHANGED <<outcome, stageStatus>>
  /\ UNCHANGED <<exec, srcFailed, pkgPc, pkgFailed, store, storeAtStart,
                 cmds, cmdOf, dispatchErr, machine, fleet, peers>>

\* ------------------------------------------------------------------------
Next ==
  \/ StartExecution
  \/ SourceStage
  \/ PackageStep
  \/ \E s \in RemoteStages : Dispatch(s)
  \/ \E s \in RemoteStages : Poll(s)
  \/ \E id \in 1..Len(cmds) : \E m \in 1..fleet : CommandStart(id, m)
  \/ \E id \in 1..Len(cmds) : \E m \in 1..fleet : CommandRun(id, m)

Spec == Init /\ [][Next]_vars

\* the pipeline with every machine of FleetInit targeted by the tag
FleetSpec == FleetInit /\ [][Next]_vars

\* the shell that runs the poll loop keeps running it: every poll call
\* returns and every sleep ends
FairSpec == Spec /\ WF_vars(\E s \in RemoteStages : Poll(s))

TypeOK ==
  /\ exec \in 0..MaxRuns
  /\ stageStatus \in [Stages -> {"NotStarted", "InProgress", "Succeeded", "Failed"}]
  /\ srcFailed \subseteq Repos
  /\ pkgPc \in 0..Len(PackagerCommands)
  /\ pkgFailed \in 0..Len(PackagerCommands)
  /\ store \in [Keys -> 0..MaxRuns]
  /\ \A s \in RemoteStages :
       /\ cmdOf[s] \in 0..Len(cmds)
       /\ attempt[s] \in 0..(MaxAttempts + 1)
  /\ machine.running \subseteq Procs
  /\ fleet \in 1..MaxFleet
  /\ DOMAIN peers = 2..fleet


\* ------------------------------------------------------------------------
\* Properties
\* ------------------------------------------------------------------------
\* attempt k of the poll loop of stage s read status, and no earlier attempt
\* of the loop had read Success or Failed
FirstTerminal(s, k, status) == firstTerminal[s] = [at |-> k, status |-> status]

\* C1: in the poll loop of DeployToDev and of IntegrationTests, when the
\* status read on attempt k (1 <= k <= 20) is Success and no earlier attempt
\* read Success or Failed, the stage reports success (exit 0) and no poll
\* call follows attempt k.
C1_SuccessEndsLoop ==
  \A s \in RemoteStages : \A k \in 1..20 :
    FirstTerminal(s, k, "Success")
      => /\ stageStatus[s] = "Succeeded"
         /\ outcome[s].exit = 0
         /\ attempt[s] = k

\* a loop that read Success on its twentieth attempt
C1_Witness ==
  \E s \in RemoteStages :
    /\ FirstTerminal(s, 20, "Success")
    /\ attempt[s] = 20
    /\ stageStatus[s] = "Succeeded"

\* C2: when the status read on an attempt is Failed and no earlier attempt
\* ended the loop, the stage reports failure on that attempt: it does not
\* sleep on it and makes no further poll call.
C2_FailedEndsLoop ==
  \A s \in RemoteStages : \A k \in 1..20 :
    FirstTerminal(s, k, "Failed")
      => /\ stageStatus[s] = "Failed"
         /\ outcome[s].exit = 1
         /\ attempt[s] = k
         /\ slept[s] = 30 * (k - 1)

\* a loop that read Failed on its third attempt
C2_Witness ==
  \E s \in RemoteStages :
    /\ FirstTerminal(s, 3, "Failed")
    /\ attempt[s] = 3
    /\ slept[s] = 60
    /\ stageStatus[s] = "Failed"

\* all twenty attempts of the loop of stage s read Pending or InProgress
Exhausted(s) ==
  /\ attempt[s] = 20
  /\ firstTerminal[s].at = 0
  /\ STATUS[s] \in {"Pending", "InProgress"}

\* C3: when all 20 attempts read Pending or InProgress the stage reports a
\* timeout, and what it reports differs from what it reports when a poll
\* read Failed: both exit with status 1, the message tells them apart.
C3_TimeoutDistinct ==
  \A s \in RemoteStages :
    /\ Exhausted(s)
         => /\ stageStatus[s] = "Failed"
            /\ outcome[s].exit = 1
            /\ outcome[s].msg = "Deployment timed out waiting for SSM command to finish"
            /\ outcome[s].msg # FailedMsg
    /\ firstTerminal[s].status = "Failed"
         => /\ outcome[s] = [exit |-> 1, msg |-> FailedMsg]
            /\ outcome[s].msg # TimedOutMsg

\* a loop whose twenty attempts read Pending or InProgress, the last one
\* InProgress
C3_Witness ==
  \E s \in RemoteStages :
    /\ Exhausted(s)
    /\ STATUS[s] = "InProgress"
    /\ outcome[s].exit = 1

\* the order the stages are claimed to run in
ClaimedOrder == <<"Source", "Package", "DeployToDev", "IntegrationTests">>

\* C4: in every execution the stages run in the order Source, Package,
\* DeployToDev, IntegrationTests: a stage has started only if every stage
\* before it has reported success.
C4_StagesInOrder ==
  \A j \in 1..4 :
    stageStatus[ClaimedOrder[j]] # "NotStarted"
      => \A i \in 1..(j - 1) : stageStatus[ClaimedOrder[i]] = "Succeeded"

\* the last stage has started
C4_Witness ==
  /\ stageStatus["IntegrationTests"] # "NotStarted"
  /\ stageStatus["DeployToDev"] = "Succeeded"

\* some stage of the current execution has failed
ExecutionFailed == \E s \in Stages : stageStatus[s] = "Failed"

\* C5: a stage failure is final for the execution: when the fetch of one of
\* the eight repositories fails the pipeline halts at Source and Package,
\* DeployToDev and IntegrationTests never execute; and nothing of a failed
\* execution is run again: its stages, its build steps, its dispatch and its
\* poll loops stay as they are until another execution is started.
C5_FailureIsFinal ==
  /\ [](srcFailed # {}
          => /\ stageStatus["Source"] = "Failed"
             /\ \A s \in Stages \ {"Source"} : stageStatus[s] = "NotStarted"
             /\ pkgPc = 0
             /\ \A s \in RemoteStages : cmdOf[s] = 0 /\ attempt[s] = 0)
  /\ [][(ExecutionFailed /\ exec' = exec)
          => /\ UNCHANGED pipeVars
             /\ store' = store
             /\ Len(cmds') = Len(cmds)]_vars

\* the fetch of one repository has failed
C5_Witness ==
  /\ srcFailed = {"HealthDAO"}
  /\ stageStatus["Source"] = "Failed"


\* index of the packager command called name
CommandIndex(name) ==
  CHOOSE i \in 1..Len(PackagerCommands) : PackagerCommands[i].name = name

\* C6 (as claimed): when the backend-service build step exits non-zero the
\* Package stage fails, the run has uploaded no object to the bucket (the
\* bucket holds what it held before the run) and DeployToDev never executes.
C6_NothingUploaded ==
  (pkgFailed # 0 /\ PackagerCommands[pkgFailed].name = "build HealthBEService")
    => /\ stageStatus["Package"] = "Failed"
       /\ store = storeAtStart
       /\ stageStatus["DeployToDev"] = "NotStarted"

\* C6 (amended): when a packager command exits non-zero (the backend-service
\* build step among them) the Package stage fails, no later command of the
\* stage runs, the run has not uploaded the archive docker_workspace.tar.gz
\* (that key holds what it held before the run) and DeployToDev and
\* IntegrationTests never execute; frontend.conf has been uploaded by the
\* run exactly when the failing command comes after its upload, as the three
\* build steps do.
C6_NoArchiveUploaded ==
  pkgFailed # 0
    => /\ stageStatus["Package"] = "Failed"
       /\ pkgPc = pkgFailed - 1
       /\ store["docker_workspace.tar.gz"] = storeAtStart["docker_workspace.tar.gz"]
       /\ store["docker_workspace.tar.gz"] # exec
       /\ \A s \in RemoteStages : stageStatus[s] = "NotStarted" /\ cmdOf[s] = 0
       /\ (store["frontend.conf"] = exec) <=> (pkgFailed > 4)
       /\ (PackagerCommands[pkgFailed].name \in BuildSteps => store["frontend.conf"] = exec)

\* the backend-service build fails in the second execution: the archive of
\* the first execution stays in the bucket next to the new frontend.conf
C6_Witness ==
  /\ exec = 2
  /\ pkgFailed # 0
  /\ PackagerCommands[pkgFailed].name = "build HealthBEService"
  /\ store["docker_workspace.tar.gz"] = 1
  /\ store["frontend.conf"] = 2

\* command id has ended in this step
Finishes(id) ==
  /\ id \in 1..Len(cmds)
  /\ cmds[id].phase = "InProgress"
  /\ cmds'[id].phase = "Done"

\* C7: the deploy remote command succeeds only if all four containers
\* (healthai, healthfe, healthpy, cassandra) are in the process list when it
\* verifies them; the IntegrationTests stage sends a test remote command
\* that verifies the same four containers again and fails without invoking
\* the test suite when one is absent: a stage that has gone through its
\* dispatch without a service error has its test command on the machine.
C7_VerifiesFourProcesses ==
  /\ [][\A id \in 1..Len(cmds) :
          (Finishes(id) /\ cmds'[id].exit = 0) => machine'.running = Procs]_vars
  /\ []((/\ stageStatus["IntegrationTests"] \in {"Succeeded", "Failed"}
         /\ dispatchErr["IntegrationTests"] # "ServiceError")
          => /\ cmdOf["IntegrationTests"] # 0
             /\ cmds[cmdOf["IntegrationTests"]].stage = "IntegrationTests")

\* the half of C7 that is about the deploy command: a deploy command ends
\* with exit status 0 only with all four containers in the process list
C7_DeployHalf ==
  [][\A id \in 1..Len(cmds) :
       (Finishes(id) /\ cmds[id].stage = "DeployToDev")
         => (cmds'[id].exit = 0 <=> machine'.running = Procs)]_vars

\* C8: DeployToDev and IntegrationTests report success only if the remote
\* command ended with exit code zero: a stage that succeeded has dispatched
\* its command, the command has ended with exit code 0, and the last poll of
\* the stage read Success for it.
C8_SuccessOnlyOnExitZero ==
  \A s \in RemoteStages :
    stageStatus[s] = "Succeeded"
      => /\ cmdOf[s] # 0
         /\ cmds[cmdOf[s]].stage = s
         /\ cmds[cmdOf[s]].run = exec
         /\ cmds[cmdOf[s]].phase = "Done"
         /\ cmds[cmdOf[s]].exit = 0
         /\ attempt[s] >= 1
         /\ STATUS[s] = "Success"
         /\ outcome[s].exit = 0

\* the deploy stage of the second execution has succeeded while the deploy
\* command of the first execution had failed
C8_Witness ==
  /\ exec = 2
  /\ stageStatus["DeployToDev"] = "Succeeded"
  /\ cmds[1].exit = 1
  /\ cmds[cmdOf["DeployToDev"]].exit = 0

\* the bounds of the poll loop of C9, as a state predicate
PollingBounded ==
  \A s \in RemoteStages :
    /\ attempt[s] <= 20
    /\ slept[s] <= 600
    /\ cmdOf[s] # 0 => slept[s] < cmds[cmdOf[s]].timeout
    /\ attempt[s] = 20 => stageStatus[s] \in {"Succeeded", "Failed"}
    /\ Exhausted(s)
         => /\ stageStatus[s] = "Failed"
            /\ slept[s] = 600
            /\ outcome[s] = [exit |-> 1, msg |-> TimedOutMsg]

\* C9: the poll loop always ends with a stage outcome, after at most 20
\* poll calls and at most 600 seconds of sleep, whatever the timeout of 1800
\* seconds declared for the command: a command that is still Pending or
\* InProgress at the 20th poll is reported as timed out, also when it
\* succeeds later.
C9_PollLoopTerminates ==
  /\ []PollingBounded
  /\ \A s \in RemoteStages :
       (stageStatus[s] = "InProgress" /\ cmdOf[s] # 0) ~> (stageStatus[s] # "InProgress")

\* the stage has timed out and its command has succeeded afterwards
C9_Witness ==
  \E s \in RemoteStages :
    /\ Exhausted(s)
    /\ outcome[s].msg = TimedOutMsg
    /\ cmds[cmdOf[s]].timeout = 1800
    /\ StatusOf(cmds[cmdOf[s]]) = "Success"

\* C10: access to the target machine is serialized by the order of the
\* stages: in every reachable state, also after a stage has timed out and
\* the pipeline was run again, at most one remote command is still running
\* on the target machine.
C10_OneCommandAtATime ==
  Cardinality({id \in 1..Len(cmds) : Running(cmds[id])}) <= 1

\* the order in which the claim lists the steps of the deploy command
ClaimedDeployOrder == <<"fetch", "extract", "down", "up", "sleep", "check">>

RankOf(op) == CHOOSE i \in 1..Len(ClaimedDeployOrder) : ClaimedDeployOrder[i] = op

\* the operations of ran that the claim lists
ListedOps(ran) == SelectSeq(ran, LAMBDA op : \E i \in 1..Len(ClaimedDeployOrder) : ClaimedDeployOrder[i] = op)

\* ran goes through every listed step, in the listed order
InClaimedOrder(ran) ==
  LET l == ListedOps(ran)
  IN  /\ \A i \in 1..Len(ClaimedDeployOrder) : \E j \in 1..Len(l) : l[j] = ClaimedDeployOrder[i]
      /\ \A i, j \in 1..Len(l) : i < j => RankOf(l[i]) <= RankOf(l[j])

\* C11: a deploy command runs download, extract, teardown, rebuild/start,
\* warm-up and verification in that order, every verification after the
\* teardown, and it has no rollback: when the teardown and the start went
\* through and a verification fails, the command fails and the machine is
\* left with the containers this command started from the workspace it
\* extracted (one of the four is missing), also when all four were running
\* before the command.
C11_FixedOrderNoRollback ==
  [][\A id \in 1..Len(cmds) :
       (Finishes(id) /\ cmds[id].stage = "DeployToDev")
         => LET ran == machine'.log
            IN  /\ InClaimedOrder(ran)
                /\ \A i, j \in 1..Len(ran) :
                     (ran[i] = "down" /\ ran[j] = "check") => i < j
                /\ (machine'.workspace # 0 /\ cmds'[id].exit # 0)
                     => /\ machine'.running # Procs
                        /\ machine'.deployed = machine'.workspace
                        /\ machine'.deployed # 0]_vars

\* a deploy command of the second execution has failed its verification
\* after the deploy command of the first execution had succeeded: the
\* machine runs the second archive with a container missing
C11_Witness ==
  \E id \in 1..Len(cmds) : \E j \in 1..Len(cmds) :
    /\ j < id
    /\ cmds[j].phase = "Done" /\ cmds[j].exit = 0
    /\ cmds[id].stage = "DeployToDev"
    /\ cmds[id].phase = "Done" /\ cmds[id].exit # 0
    /\ Len(machine.log) > 8
    /\ machine.deployed = cmds[id].run
    /\ machine.deployed # cmds[j].run
    /\ machine.running # Procs
    /\ machine.running # {}

\* the status of the invocation of command id on machine m
StatusAt(id, m) == StatusOf(InvocationOf(cmds[id], m))

\* C12: a remote stage reports success only if its command succeeded on
\* every machine tagged HealthEnv=dev: there is no state in which the stage
\* has succeeded while the invocation of its command on some targeted
\* machine has failed, is pending or is still running.
C12_SuccessOnEveryMachine ==
  \A s \in RemoteStages :
    (stageStatus[s] = "Succeeded" /\ cmdOf[s] # 0)
      => \A m \in 1..fleet : StatusAt(cmdOf[s], m) = "Success"

====
